---- MODULE Spec2Model ----
(***************************************************************************)
(* A model of package metrics (src/metrics.go): Counter, Gauge, Histogram, *)
(* the Algorithm R reservoir (randomSample) and the percentile estimator.  *)
(*                                                                         *)
(* float64 values are modelled by integers (integral float64 values of     *)
(* this size add exactly); a percentile rank p is the pair <<a, b>> for    *)
(* a/b; a percentile score is the pair <<num, den>> for num/den.           *)
(*                                                                         *)
(* Spec     : one metric instance, calls that do not overlap (each action  *)
(*            is one whole call).                                          *)
(* ConcSpec : one metric instance used by several goroutines, each action  *)
(*            one step of a call (lock, memory access, unlock).            *)
(* LockedSpec : ConcSpec for the Counter whose Add and Count take the      *)
(*            mutex (src/unnamed/part_000, lines 722-761).                 *)
(* SnapSpec : Snapshot calls on a Gauge or Histogram that holds any values *)
(*            up to its capacity, for capacities up to MaxSampleSize.      *)
(* EstSpec  : one call of percentiles on a sorted sample.                  *)
(* ResvSpec : one randomSample, followed along every sequence of outcomes  *)
(*            of its random draws at once.                                 *)
(***************************************************************************)
EXTENDS Integers, Sequences, FiniteSets, TLC

VARIABLES
    kind,         \* which metric was constructed: "Counter", "Gauge", "Histogram"
    c,            \* the Counter: [n, sum]
    g,            \* the Gauge: [percentiles, resv, last]
    h,            \* the Histogram: [percentiles, resv]
    mutex,        \* the instance's sync.Mutex: "unlocked" or its holder
    ret,          \* the most recent completed call and what it returned
    prev,         \* the completed call before it
    epoch,        \* history: the values recorded since the last reset
    pc,           \* ConcSpec: each goroutine's position
    loc,          \* ConcSpec: each goroutine's locals
    calls,        \* ConcSpec: calls made by each goroutine
    hist,         \* ConcSpec: history of Adds/Records and reset snapshots
    est,          \* EstSpec: the arguments of percentiles and its result
    outcomes      \* ResvSpec: the values recorded and the sampler after
                  \* each sequence of draw outcomes

vars == <<kind, c, g, h, mutex, ret, prev, epoch, pc, loc, calls, hist,
          est, outcomes>>

concVars == <<pc, loc, calls, hist>>

pureVars == <<est, outcomes>>

----------------------------------------------------------------------------
(* Bounds *)

\* The reservoir capacity. The program uses 2000 (defaultSampleSize); the
\* model uses a small capacity so that the full-reservoir paths are reached.
defaultSampleSize == 2

\* Values recorded per epoch (between two resets) in Spec.
MaxRecords == 3

\* Values given to Gauge.Record / Histogram.Record.
Values == {-2, 1, 3}

\* Deltas given to Counter.Add / Gauge.Add.
Deltas == {-1, 2}

\* Deltas given to Counter.Add in Spec: negative, zero and positive.
CounterDeltas == Deltas \cup {0}

\* ConcSpec: the calls each worker goroutine makes (K), the calls the
\* snapshotting goroutine makes, the goroutines, and what they record.
OpsPerWorker == 1
MaxSnapshots == 1
Workers == {"w1", "w2"}
Snapshotter == "s"
ConcValues == {1, 3}
ConcConfigs == { << <<1, 2>> >>, << <<0, 1>> >> }

\* EstSpec: the largest sampleSize percentiles is called with, and the
\* percentile lists it is called with.
MaxSampleSize == 4
EstConfigs == { << >>,
                << <<1, 2>>, <<9, 10>>, <<1, 1>> >>,
                << <<0, 1>>, <<1, 10>> >>,
                << <<1, 3>>, <<3, 4>>, <<99, 100>> >> }

\* ResvSpec: the largest capacity of the sampler, the values recorded per
\* epoch, and the values (told apart by being distinct).
MaxCapacity == 3
MaxCount == 4
ResvValues == {-2, -1, 1, 3, 4}

\* Config.Percentiles: each rank a pair <<a, b>> meaning a/b, within [0, 1].
Configs == { << >>,
             << <<1, 2>>, <<9, 10>>, <<1, 1>> >>,
             << <<0, 1>>, <<1, 10>> >> }

----------------------------------------------------------------------------
(* Helpers standing for Go built-ins *)

Max2(a, b) == IF a >= b THEN a ELSE b
Min2(a, b) == IF a <= b THEN a ELSE b

\* float64(x) of an int64: exact for |x| <= 2^53, which the bounds stay within.
Float64(x) == x

RECURSIVE Insert(_, _)
Insert(s, v) ==
    IF s = << >> THEN <<v>>
    ELSE IF v <= Head(s) THEN <<v>> \o s
    ELSE <<Head(s)>> \o Insert(Tail(s), v)

\* sort.Float64s: the values in increasing order.
RECURSIVE SortFloat64s(_)
SortFloat64s(s) ==
    IF s = << >> THEN << >> ELSE Insert(SortFloat64s(Tail(s)), Head(s))

\* math.Ceil(p * n) for p = a/b >= 0, as an int.
CeilMul(p, n) == (p[1] * n + p[2] - 1) \div p[2]

----------------------------------------------------------------------------
(* Snapshot *)

EmptyPercentile == [p \in {} |-> <<0, 1>>]

\* Snapshot{}: the zero value (a nil Percentile map has no entries).
ZeroSnapshot ==
    [N |-> 0, Sum |-> 0, Min |-> 0, Max |-> 0,
     Percentile |-> EmptyPercentile, Last |-> 0]

----------------------------------------------------------------------------
(* randomSample *)

\* Mutant: make([]float64, size) instead of make([]float64, 0, size).
newRandomSample_makeLen(size) ==
    [sampleSize |-> size, n |-> 0, sum |-> 0, max |-> 0,
     values |-> [i \in 1 .. size |-> 0]]

newRandomSample(size) ==
    [sampleSize |-> size, n |-> 0, sum |-> 0, max |-> 0, values |-> << >>]

\* Mutant: the sum is updated only when the value enters the sample.
record_sumSampled(s, v, r) ==
    LET stored == Len(s.values) < s.sampleSize \/ r < Len(s.values)
        values1 ==
            IF Len(s.values) < s.sampleSize
            THEN Append(s.values, v)
            ELSE IF r < Len(s.values)
                 THEN [s.values EXCEPT ![r + 1] = v]
                 ELSE s.values
    IN [s EXCEPT !.n = s.n + 1,
                 !.sum = IF stored THEN s.sum + v ELSE s.sum,
                 !.values = values1,
                 !.max = IF v > s.max THEN v ELSE s.max]

\* Mutant: a replacement always overwrites the first slot.
record_replaceFirst(s, v, r) ==
    LET values1 ==
            IF Len(s.values) < s.sampleSize
            THEN Append(s.values, v)
            ELSE IF r < Len(s.values)
                 THEN [s.values EXCEPT ![1] = v]
                 ELSE s.values
    IN [s EXCEPT !.n = s.n + 1, !.sum = s.sum + v, !.values = values1,
                 !.max = IF v > s.max THEN v ELSE s.max]

\* record(v); r is the outcome of rand.Int63n(s.n), drawn only when the
\* sample is full.
record(s, v, r) ==
    LET n1 == s.n + 1
        sum1 == s.sum + v
        values1 ==
            IF Len(s.values) < s.sampleSize
            THEN Append(s.values, v)
            ELSE IF r < Len(s.values)
                 THEN [s.values EXCEPT ![r + 1] = v]
                 ELSE s.values
        max1 == IF v > s.max THEN v ELSE s.max
    IN [s EXCEPT !.n = n1, !.sum = sum1, !.values = values1, !.max = max1]

\* Mutant: the draw is made before s.n is incremented.
Draws_beforeIncrement(s) ==
    IF Len(s.values) < s.sampleSize THEN {0} ELSE 0 .. s.n - 1

\* The outcomes rand.Int63n(s.n) can have when record is called on s (s.n is
\* incremented before the draw); one outcome when no draw is made.
Draws(s) ==
    IF Len(s.values) < s.sampleSize THEN {0} ELSE 0 .. s.n

\* Mutant: the sample is not replaced by an empty one.
reset_keepValues(s) == [s EXCEPT !.n = 0, !.sum = 0, !.max = 0]

\* Mutant: the maximum is not cleared.
reset_keepMax(s) == [s EXCEPT !.n = 0, !.sum = 0, !.values = << >>]

\* Mutant: the sum is not cleared.
reset_keepSum(s) == [s EXCEPT !.n = 0, !.max = 0, !.values = << >>]

reset(s) ==
    [s EXCEPT !.n = 0, !.sum = 0, !.max = 0, !.values = << >>]

----------------------------------------------------------------------------
(* percentiles *)

\* One score of the nearest-rank branch: values[i-1], i = int(math.Ceil(p*n)).
\* An index outside the slice is a run-time panic.
nearestRank(p, values) ==
    LET n == Len(values)
        i == CeilMul(p, n)
    IN IF i - 1 < 0 \/ i - 1 >= n
       THEN [panic |-> TRUE, score |-> <<0, 1>>]
       ELSE [panic |-> FALSE, score |-> <<values[i] * 3 * p[2], 3 * p[2]>>]

\* Mutant: the R7 position, pos = p*(n - 1) + 1.
r8_r7(p, values) ==
    LET n == Len(values)
        D == 3 * p[2]
        P == 3 * p[1] * (n - 1) + 3 * p[2]
    IN IF P < D
       THEN [panic |-> FALSE, score |-> <<values[1] * D, D>>]
       ELSE IF P >= n * D
       THEN [panic |-> FALSE, score |-> <<values[n] * D, D>>]
       ELSE LET k == P \div D
                f == P - k * D
                lower == values[k]
                upper == values[k + 1]
            IN [panic |-> FALSE,
                score |-> <<lower * D + f * (upper - lower), D>>]

\* Mutant: the interpolation starts from the upper value.
r8_fromUpper(p, values) ==
    LET n == Len(values)
        D == 3 * p[2]
        P == p[1] * (3 * n + 1) + p[2]
    IN IF P < D
       THEN [panic |-> FALSE, score |-> <<values[1] * D, D>>]
       ELSE IF P >= n * D
       THEN [panic |-> FALSE, score |-> <<values[n] * D, D>>]
       ELSE LET k == P \div D
                f == P - k * D
                lower == values[k]
                upper == values[k + 1]
            IN [panic |-> FALSE,
                score |-> <<upper * D + f * (upper - lower), D>>]

\* One score of the R8 branch: pos = p*(n + 1/3) + 1/3 = P / D.
r8(p, values) ==
    LET n == Len(values)
        D == 3 * p[2]
        P == p[1] * (3 * n + 1) + p[2]
    IN IF P < D
       THEN [panic |-> FALSE, score |-> <<values[1] * D, D>>]
       ELSE IF P >= n * D
       THEN [panic |-> FALSE, score |-> <<values[n] * D, D>>]
       ELSE LET k == P \div D
                f == P - k * D
                lower == values[k]
                upper == values[k + 1]
            IN [panic |-> FALSE,
                score |-> <<lower * D + f * (upper - lower), D>>]

\* Mutant: with no percentile configured the median is reported.
percentiles_defaultMedian(ps, values, sampleSize) ==
    LET n == Len(values)
        keys == IF Len(ps) = 0 THEN {<<1, 2>>}
                ELSE {ps[i] : i \in 1 .. Len(ps)}
    IN IF n = 0
       THEN [panic |-> FALSE, scores |-> EmptyPercentile]
       ELSE IF n >= sampleSize
       THEN [panic |-> \E p \in keys : nearestRank(p, values).panic,
             scores |-> [p \in keys |-> nearestRank(p, values).score]]
       ELSE [panic |-> \E p \in keys : r8(p, values).panic,
             scores |-> [p \in keys |-> r8(p, values).score]]

\* Mutant: nearest rank only above the capacity (n > sampleSize).
percentiles_strictlyAbove(ps, values, sampleSize) ==
    LET n == Len(values)
        keys == {ps[i] : i \in 1 .. Len(ps)}
    IN IF n = 0 \/ Len(ps) = 0
       THEN [panic |-> FALSE, scores |-> EmptyPercentile]
       ELSE IF n > sampleSize
       THEN [panic |-> \E p \in keys : nearestRank(p, values).panic,
             scores |-> [p \in keys |-> nearestRank(p, values).score]]
       ELSE [panic |-> \E p \in keys : r8(p, values).panic,
             scores |-> [p \in keys |-> r8(p, values).score]]

\* percentiles(percentiles, values, sampleSize): the scores map, or a panic.
percentiles(ps, values, sampleSize) ==
    LET n == Len(values)
        keys == {ps[i] : i \in 1 .. Len(ps)}
    IN IF n = 0 \/ Len(ps) = 0
       THEN [panic |-> FALSE, scores |-> EmptyPercentile]
       ELSE IF n >= sampleSize
       THEN [panic |-> \E p \in keys : nearestRank(p, values).panic,
             scores |-> [p \in keys |-> nearestRank(p, values).score]]
       ELSE [panic |-> \E p \in keys : r8(p, values).panic,
             scores |-> [p \in keys |-> r8(p, values).score]]

----------------------------------------------------------------------------
(* finalizeSnapshot *)

\* Mutant: Min is taken from the sample before it is sorted.
finalizeSnapshot_unsorted(snapshot, s, p, doReset) ==
    IF Len(s.values) = 0
    THEN [snapshot |-> snapshot, resv |-> s, panic |-> FALSE]
    ELSE LET values == SortFloat64s(s.values)
             s1 == IF doReset THEN reset(s) ELSE s
             pr == percentiles(p, values, s.sampleSize)
         IN [snapshot |-> [snapshot EXCEPT !.N = s.n, !.Sum = s.sum,
                                           !.Max = s.max, !.Min = s.values[1],
                                           !.Percentile = pr.scores],
             resv |-> s1,
             panic |-> pr.panic]

\* Mutant: the sampler is reset whatever the reset argument.
finalizeSnapshot_alwaysReset(snapshot, s, p, doReset) ==
    IF Len(s.values) = 0
    THEN [snapshot |-> snapshot, resv |-> s, panic |-> FALSE]
    ELSE LET values == SortFloat64s(s.values)
             pr == percentiles(p, values, s.sampleSize)
         IN [snapshot |-> [snapshot EXCEPT !.N = s.n, !.Sum = s.sum,
                                           !.Max = s.max, !.Min = values[1],
                                           !.Percentile = pr.scores],
             resv |-> reset(s),
             panic |-> pr.panic]

\* Mutant: without reset the live buffer is sorted in place (no copy).
finalizeSnapshot_sortsLive(snapshot, s, p, doReset) ==
    IF Len(s.values) = 0
    THEN [snapshot |-> snapshot, resv |-> s, panic |-> FALSE]
    ELSE LET values == SortFloat64s(s.values)
             s1 == IF doReset THEN reset(s) ELSE [s EXCEPT !.values = values]
             pr == percentiles(p, values, s.sampleSize)
         IN [snapshot |-> [snapshot EXCEPT !.N = s.n, !.Sum = s.sum,
                                           !.Max = s.max, !.Min = values[1],
                                           !.Percentile = pr.scores],
             resv |-> s1,
             panic |-> pr.panic]

\* Mutant: with reset the percentiles are computed from the sample as
\* reset() left it.
finalizeSnapshot_resetFirst(snapshot, s, p, doReset) ==
    IF Len(s.values) = 0
    THEN [snapshot |-> snapshot, resv |-> s, panic |-> FALSE]
    ELSE LET values == SortFloat64s(s.values)
             s1 == IF doReset THEN reset(s) ELSE s
             pr == percentiles(p, IF doReset THEN s1.values ELSE values,
                               s.sampleSize)
         IN [snapshot |-> [snapshot EXCEPT !.N = s.n, !.Sum = s.sum,
                                           !.Max = s.max, !.Min = values[1],
                                           !.Percentile = pr.scores],
             resv |-> s1,
             panic |-> pr.panic]

\* finalizeSnapshot(&snapshot, resv, p, reset): the snapshot as filled in,
\* the sampler as left behind, and whether percentiles panicked (the sampler
\* is reset before percentiles is called).
finalizeSnapshot(snapshot, s, p, doReset) ==
    IF Len(s.values) = 0
    THEN [snapshot |-> snapshot, resv |-> s, panic |-> FALSE]
    ELSE LET values == SortFloat64s(s.values)
             s1 == IF doReset THEN reset(s) ELSE s
             pr == percentiles(p, values, s.sampleSize)
         IN [snapshot |-> [snapshot EXCEPT !.N = s.n, !.Sum = s.sum,
                                           !.Max = s.max, !.Min = values[1],
                                           !.Percentile = pr.scores],
             resv |-> s1,
             panic |-> pr.panic]

----------------------------------------------------------------------------
(* Counter, Gauge, Histogram: constructors and critical sections *)

NewCounter == [n |-> 0, sum |-> 0]

NewGauge(cfg) ==
    [percentiles |-> cfg, resv |-> newRandomSample(defaultSampleSize),
     last |-> 0]

NewHistogram(cfg) ==
    [percentiles |-> cfg, resv |-> newRandomSample(defaultSampleSize)]

\* Counter.Add: atomic.AddInt64(&c.n, 1), then atomic.AddInt64(&c.sum, delta).
Counter_AddN(cc) == [cc EXCEPT !.n = cc.n + 1]
Counter_AddSum(cc, delta) == [cc EXCEPT !.sum = cc.sum + delta]

\* Mutant: Count returns the number of Adds.
Counter_Count_n(cc) == cc.n

\* Counter.Count: atomic.LoadInt64(&c.sum).
Counter_Count(cc) == cc.sum

\* Mutant: the snapshot also reports the sum as Max.
Counter_Snapshot_withMax(cc, doReset) ==
    [snapshot |-> [ZeroSnapshot EXCEPT !.N = cc.n, !.Sum = Float64(cc.sum),
                                       !.Max = Float64(cc.sum)],
     c |-> IF doReset THEN [cc EXCEPT !.n = 0, !.sum = 0] ELSE cc]

\* Counter.Snapshot between Lock and Unlock, with no Add in between.
Counter_Snapshot(cc, doReset) ==
    [snapshot |-> [ZeroSnapshot EXCEPT !.N = cc.n, !.Sum = Float64(cc.sum)],
     c |-> IF doReset THEN [cc EXCEPT !.n = 0, !.sum = 0] ELSE cc]

\* Gauge.Record between Lock and Unlock.
Gauge_Record(gg, v, r) ==
    [gg EXCEPT !.last = v, !.resv = record(gg.resv, v, r)]

\* Mutant: the delta is recorded instead of the new last value.
Gauge_Add_recordDelta(gg, delta, r) ==
    LET last1 == gg.last + Float64(delta)
    IN [gg EXCEPT !.last = last1,
                  !.resv = record(gg.resv, Float64(delta), r)]

\* Gauge.Add between Lock and Unlock.
Gauge_Add(gg, delta, r) ==
    LET last1 == gg.last + Float64(delta)
    IN [gg EXCEPT !.last = last1, !.resv = record(gg.resv, last1, r)]

\* Gauge.Last between Lock and Unlock.
Gauge_Last(gg) == gg.last

\* Mutant: g.last is zeroed whatever the reset argument.
Gauge_Snapshot_zeroLast(gg, doReset) ==
    LET fin == finalizeSnapshot([ZeroSnapshot EXCEPT !.Last = gg.last],
                                gg.resv, gg.percentiles, doReset)
    IN [snapshot |-> fin.snapshot,
        g |-> [gg EXCEPT !.resv = fin.resv,
                         !.last = IF ~fin.panic THEN 0 ELSE gg.last],
        panic |-> fin.panic]

\* Gauge.Snapshot between Lock and Unlock. When percentiles panics the
\* statements after finalizeSnapshot (g.last = 0, g.Unlock()) are not run.
Gauge_Snapshot(gg, doReset) ==
    LET fin == finalizeSnapshot([ZeroSnapshot EXCEPT !.Last = gg.last],
                                gg.resv, gg.percentiles, doReset)
    IN [snapshot |-> fin.snapshot,
        g |-> [gg EXCEPT !.resv = fin.resv,
                         !.last = IF doReset /\ ~fin.panic THEN 0 ELSE gg.last],
        panic |-> fin.panic]

\* Histogram.Record between Lock and Unlock.
Histogram_Record(hh, v, r) == [hh EXCEPT !.resv = record(hh.resv, v, r)]

\* Histogram.Snapshot between Lock and Unlock.
Histogram_Snapshot(hh, doReset) ==
    LET fin == finalizeSnapshot(ZeroSnapshot, hh.resv, hh.percentiles, doReset)
    IN [snapshot |-> fin.snapshot,
        h |-> [hh EXCEPT !.resv = fin.resv],
        panic |-> fin.panic]

----------------------------------------------------------------------------
(* History kept beside the program state *)

\* The values recorded since the last reset: how many, their sum, the
\* largest and the smallest (max and min are meaningful when count > 0).
NoEpoch == [count |-> 0, sum |-> 0, max |-> 0, min |-> 0]

EpochRecord(e, v) ==
    [count |-> e.count + 1,
     sum |-> e.sum + v,
     max |-> IF e.count = 0 THEN v ELSE Max2(e.max, v),
     min |-> IF e.count = 0 THEN v ELSE Min2(e.min, v)]

\* A completed call: its name, its reset argument, whether it panicked, the
\* snapshot or the value it returned, and the state it was invoked in.
Call(op, doReset, panic, snap, val) ==
    [op |-> op, reset |-> doReset, panic |-> panic, snap |-> snap, val |-> val,
     pre |-> [c |-> c, g |-> g, h |-> h, epoch |-> epoch]]

NoCall ==
    [op |-> "none", reset |-> FALSE, panic |-> FALSE, snap |-> ZeroSnapshot,
     val |-> 0,
     pre |-> [c |-> NewCounter, g |-> NewGauge(<< >>),
              h |-> NewHistogram(<< >>), epoch |-> NoEpoch]]

\* EstSpec's and ResvSpec's variables where they are not used.
NoEst ==
    [percentiles |-> << >>, values |-> << >>, sampleSize |-> 0,
     called |-> FALSE, panic |-> FALSE, scores |-> EmptyPercentile]

NoOutcomes == [recorded |-> << >>, samples |-> << >>]

----------------------------------------------------------------------------
(* Spec: calls that do not overlap *)

Init ==
    /\ kind \in {"Counter", "Gauge", "Histogram"}
    /\ c = NewCounter
    /\ \E cfg \in Configs :
          /\ g = NewGauge(IF kind = "Gauge" THEN cfg ELSE << >>)
          /\ h = NewHistogram(IF kind = "Histogram" THEN cfg ELSE << >>)
    /\ mutex = "unlocked"
    /\ ret = NoCall
    /\ prev = NoCall
    /\ epoch = NoEpoch
    /\ pc = << >>
    /\ loc = << >>
    /\ calls = << >>
    /\ hist = << >>
    /\ est = NoEst
    /\ outcomes = NoOutcomes

\* The call just completed becomes the latest one; of the one before it the
\* name, the arguments and the result are kept.
Returned(call) ==
    /\ ret' = call
    /\ prev' = [ret EXCEPT !.pre = NoCall.pre]

CounterAdd(delta) ==
    /\ kind = "Counter"
    /\ epoch.count < MaxRecords
    /\ c' = Counter_AddSum(Counter_AddN(c), delta)
    /\ epoch' = EpochRecord(epoch, delta)
    /\ Returned(Call("Add", FALSE, FALSE, ZeroSnapshot, 0))
    /\ UNCHANGED <<kind, g, h, mutex, concVars, pureVars>>

CounterCount ==
    /\ kind = "Counter"
    /\ Returned(Call("Count", FALSE, FALSE, ZeroSnapshot, Counter_Count(c)))
    /\ UNCHANGED <<kind, c, g, h, mutex, epoch, concVars, pureVars>>

CounterSnapshot(doReset) ==
    /\ kind = "Counter"
    /\ mutex = "unlocked"
    /\ LET cs == Counter_Snapshot(c, doReset)
       IN /\ c' = cs.c
          /\ Returned(Call("Snapshot", doReset, FALSE, cs.snapshot, 0))
    /\ epoch' = IF doReset THEN NoEpoch ELSE epoch
    /\ UNCHANGED <<kind, g, h, mutex, concVars, pureVars>>

GaugeRecord(v) ==
    /\ kind = "Gauge"
    /\ mutex = "unlocked"
    /\ epoch.count < MaxRecords
    /\ \E r \in Draws(g.resv) : g' = Gauge_Record(g, v, r)
    /\ epoch' = EpochRecord(epoch, v)
    /\ Returned(Call("Record", FALSE, FALSE, ZeroSnapshot, 0))
    /\ UNCHANGED <<kind, c, h, mutex, concVars, pureVars>>

GaugeAdd(delta) ==
    /\ kind = "Gauge"
    /\ mutex = "unlocked"
    /\ epoch.count < MaxRecords
    /\ \E r \in Draws(g.resv) : g' = Gauge_Add(g, delta, r)
    /\ epoch' = EpochRecord(epoch, g.last + delta)
    /\ Returned(Call("Add", FALSE, FALSE, ZeroSnapshot, 0))
    /\ UNCHANGED <<kind, c, h, mutex, concVars, pureVars>>

GaugeLast ==
    /\ kind = "Gauge"
    /\ mutex = "unlocked"
    /\ Returned(Call("Last", FALSE, FALSE, ZeroSnapshot, Gauge_Last(g)))
    /\ UNCHANGED <<kind, c, g, h, mutex, epoch, concVars, pureVars>>

\* A panic in percentiles leaves the mutex locked: no later call on the
\* instance gets past Lock.
GaugeSnapshot(doReset) ==
    /\ kind = "Gauge"
    /\ mutex = "unlocked"
    /\ LET gs == Gauge_Snapshot(g, doReset)
       IN /\ g' = gs.g
          /\ mutex' = IF gs.panic THEN "locked" ELSE "unlocked"
          /\ Returned(Call("Snapshot", doReset, gs.panic, gs.snapshot, 0))
    /\ epoch' = IF doReset THEN NoEpoch ELSE epoch
    /\ UNCHANGED <<kind, c, h, concVars, pureVars>>

HistogramRecord(v) ==
    /\ kind = "Histogram"
    /\ mutex = "unlocked"
    /\ epoch.count < MaxRecords
    /\ \E r \in Draws(h.resv) : h' = Histogram_Record(h, v, r)
    /\ epoch' = EpochRecord(epoch, v)
    /\ Returned(Call("Record", FALSE, FALSE, ZeroSnapshot, 0))
    /\ UNCHANGED <<kind, c, g, mutex, concVars, pureVars>>

HistogramSnapshot(doReset) ==
    /\ kind = "Histogram"
    /\ mutex = "unlocked"
    /\ LET hs == Histogram_Snapshot(h, doReset)
       IN /\ h' = hs.h
          /\ mutex' = IF hs.panic THEN "locked" ELSE "unlocked"
          /\ Returned(Call("Snapshot", doReset, hs.panic, hs.snapshot, 0))
    /\ epoch' = IF doReset THEN NoEpoch ELSE epoch
    /\ UNCHANGED <<kind, c, g, concVars, pureVars>>

Next ==
    \/ \E delta \in CounterDeltas : CounterAdd(delta)
    \/ CounterCount
    \/ \E doReset \in BOOLEAN : CounterSnapshot(doReset)
    \/ \E v \in Values : GaugeRecord(v)
    \/ \E delta \in Deltas : GaugeAdd(delta)
    \/ GaugeLast
    \/ \E doReset \in BOOLEAN : GaugeSnapshot(doReset)
    \/ \E v \in Values : HistogramRecord(v)
    \/ \E doReset \in BOOLEAN : HistogramSnapshot(doReset)

Spec == Init /\ [][Next]_vars

----------------------------------------------------------------------------
(* ConcSpec: goroutines sharing one instance, one statement per step *)

Procs == Workers \cup {Snapshotter}

NoLocals ==
    [op |-> "none", arg |-> 0, reset |-> FALSE, snapshot |-> ZeroSnapshot,
     incl |-> 0, quiet |-> FALSE, first |-> FALSE]

NoHist ==
    [done |-> [n |-> 0, sum |-> 0],   \* Adds/Records that have returned
     snaps |-> [n |-> 0, sum |-> 0],  \* N and Sum over returned reset snapshots
     resets |-> 0,                    \* Snapshot(true) calls invoked
     inSum |-> 0]     \* Adds/Records whose value is part of the live sum

ConcInit ==
    /\ kind \in {"Counter", "Gauge", "Histogram"}
    /\ c = NewCounter
    /\ \E cfg \in ConcConfigs :
          /\ g = NewGauge(IF kind = "Gauge" THEN cfg ELSE << >>)
          /\ h = NewHistogram(IF kind = "Histogram" THEN cfg ELSE << >>)
    /\ mutex = "unlocked"
    /\ ret = NoCall
    /\ prev = NoCall
    /\ epoch = NoEpoch
    /\ pc = [t \in Procs |-> "idle"]
    /\ loc = [t \in Procs |-> NoLocals]
    /\ calls = [t \in Procs |-> 0]
    /\ hist = NoHist
    /\ est = NoEst
    /\ outcomes = NoOutcomes

\* A worker goroutine calls Counter.Add(delta), which has no statement
\* before atomic.AddInt64(&c.n, 1).
CounterAddN(t, delta) ==
    /\ kind = "Counter" /\ t \in Workers
    /\ pc[t] = "idle" /\ calls[t] < OpsPerWorker
    /\ calls' = [calls EXCEPT ![t] = @ + 1]
    /\ loc' = [loc EXCEPT ![t] = [NoLocals EXCEPT !.op = "Add", !.arg = delta]]
    /\ c' = Counter_AddN(c)
    /\ pc' = [pc EXCEPT ![t] = "addSum"]
    /\ UNCHANGED <<kind, g, h, mutex, ret, prev, epoch, hist, pureVars>>

\* atomic.AddInt64(&c.sum, delta), and Add returns.
CounterAddSum(t) ==
    /\ pc[t] = "addSum"
    /\ c' = Counter_AddSum(c, loc[t].arg)
    /\ hist' = [hist EXCEPT
                  !.done = [n |-> @.n + 1, sum |-> @.sum + loc[t].arg],
                  !.inSum = @ + 1]
    /\ loc' = [loc EXCEPT ![t] = NoLocals]
    /\ pc' = [pc EXCEPT ![t] = "idle"]
    /\ UNCHANGED <<kind, g, h, mutex, ret, prev, epoch, calls, pureVars>>

\* A worker goroutine calls Gauge.Record(v), Gauge.Add(delta) or
\* Histogram.Record(v).
InvokeRecord(t, op, arg) ==
    /\ t \in Workers
    /\ \/ kind = "Gauge" /\ op = "Record" /\ arg \in ConcValues
       \/ kind = "Gauge" /\ op = "Add" /\ arg \in Deltas
       \/ kind = "Histogram" /\ op = "Record" /\ arg \in ConcValues
    /\ pc[t] = "idle" /\ calls[t] < OpsPerWorker
    /\ calls' = [calls EXCEPT ![t] = @ + 1]
    /\ loc' = [loc EXCEPT ![t] = [NoLocals EXCEPT !.op = op, !.arg = arg]]
    /\ pc' = [pc EXCEPT ![t] = "lock"]
    /\ UNCHANGED <<kind, c, g, h, mutex, ret, prev, epoch, hist, pureVars>>

\* The snapshotting goroutine calls Snapshot(reset). Kept with the call:
\* whether every worker had returned from all its calls, and whether no
\* Snapshot(true) was called before.
InvokeSnapshot(t, doReset) ==
    /\ t = Snapshotter
    /\ pc[t] = "idle" /\ calls[t] < MaxSnapshots
    /\ calls' = [calls EXCEPT ![t] = @ + 1]
    /\ loc' = [loc EXCEPT ![t] =
                 [NoLocals EXCEPT
                    !.op = "Snapshot", !.reset = doReset,
                    !.quiet = \A w \in Workers :
                                 pc[w] = "idle" /\ calls[w] = OpsPerWorker,
                    !.first = (hist.resets = 0)]]
    /\ hist' = [hist EXCEPT !.resets = IF doReset THEN @ + 1 ELSE @]
    /\ pc' = [pc EXCEPT ![t] = "lock"]
    /\ UNCHANGED <<kind, c, g, h, mutex, ret, prev, epoch, pureVars>>

\* Mutant: the call goes on without waiting for the mutex (Lock left out).
Lock_noWait(t) ==
    /\ pc[t] = "lock"
    /\ mutex' = t
    /\ pc' = [pc EXCEPT ![t] =
                IF kind = "Counter" THEN "readN"
                ELSE IF kind = "Histogram" /\ loc[t].op = "Record" THEN "record"
                ELSE IF kind = "Histogram" THEN "finalize"
                ELSE IF loc[t].op = "Snapshot" THEN "snapLast"
                ELSE "setLast"]
    /\ UNCHANGED <<kind, c, g, h, ret, prev, epoch, loc, calls, hist, pureVars>>

\* c.Lock() / g.Lock() / h.Lock(): blocks until the mutex is unlocked.
Lock(t) ==
    /\ pc[t] = "lock"
    /\ mutex = "unlocked"
    /\ mutex' = t
    /\ pc' = [pc EXCEPT ![t] =
                IF kind = "Counter" THEN "readN"
                ELSE IF kind = "Histogram" /\ loc[t].op = "Record" THEN "record"
                ELSE IF kind = "Histogram" THEN "finalize"
                ELSE IF loc[t].op = "Snapshot" THEN "snapLast"
                ELSE "setLast"]
    /\ UNCHANGED <<kind, c, g, h, ret, prev, epoch, loc, calls, hist, pureVars>>

\* Counter.Snapshot: N: c.n
CounterSnapReadN(t) ==
    /\ pc[t] = "readN"
    /\ loc' = [loc EXCEPT ![t].snapshot.N = c.n]
    /\ pc' = [pc EXCEPT ![t] = "readSum"]
    /\ UNCHANGED <<kind, c, g, h, mutex, ret, prev, epoch, calls, hist, pureVars>>

\* Counter.Snapshot: Sum: float64(c.sum)
CounterSnapReadSum(t) ==
    /\ pc[t] = "readSum"
    /\ loc' = [loc EXCEPT ![t].snapshot.Sum = Float64(c.sum),
                          ![t].incl = hist.inSum]
    /\ pc' = [pc EXCEPT ![t] = IF loc[t].reset THEN "zeroN" ELSE "unlock"]
    /\ UNCHANGED <<kind, c, g, h, mutex, ret, prev, epoch, calls, hist, pureVars>>

\* Counter.Snapshot: c.n = 0
CounterSnapZeroN(t) ==
    /\ pc[t] = "zeroN"
    /\ c' = [c EXCEPT !.n = 0]
    /\ pc' = [pc EXCEPT ![t] = "zeroSum"]
    /\ UNCHANGED <<kind, g, h, mutex, ret, prev, epoch, loc, calls, hist, pureVars>>

\* Counter.Snapshot: c.sum = 0
CounterSnapZeroSum(t) ==
    /\ pc[t] = "zeroSum"
    /\ c' = [c EXCEPT !.sum = 0]
    /\ hist' = [hist EXCEPT !.inSum = 0]
    /\ pc' = [pc EXCEPT ![t] = "unlock"]
    /\ UNCHANGED <<kind, g, h, mutex, ret, prev, epoch, loc, calls, pureVars>>

\* Gauge.Record: g.last = v; Gauge.Add: g.last += float64(delta). The value
\* this call records is the value it gives g.last.
GaugeSetLast(t) ==
    /\ pc[t] = "setLast"
    /\ LET last1 == IF loc[t].op = "Record" THEN loc[t].arg
                    ELSE g.last + Float64(loc[t].arg)
       IN /\ g' = [g EXCEPT !.last = last1]
          /\ loc' = [loc EXCEPT ![t].arg = last1]
    /\ pc' = [pc EXCEPT ![t] = "record"]
    /\ UNCHANGED <<kind, c, h, mutex, ret, prev, epoch, calls, hist, pureVars>>

\* Gauge.Record / Gauge.Add: g.resv.record(g.last);
\* Histogram.Record: h.resv.record(v)
Record(t) ==
    /\ pc[t] = "record"
    /\ \/ /\ kind = "Gauge"
          /\ \E r \in Draws(g.resv) :
                g' = [g EXCEPT !.resv = record(g.resv, g.last, r)]
          /\ h' = h
       \/ /\ kind = "Histogram"
          /\ \E r \in Draws(h.resv) : h' = Histogram_Record(h, loc[t].arg, r)
          /\ g' = g
    /\ hist' = [hist EXCEPT !.inSum = @ + 1]
    /\ pc' = [pc EXCEPT ![t] = "unlock"]
    /\ UNCHANGED <<kind, c, mutex, ret, prev, epoch, loc, calls, pureVars>>

\* Gauge.Snapshot: snapshot := Snapshot{Last: g.last}
GaugeSnapLast(t) ==
    /\ pc[t] = "snapLast"
    /\ loc' = [loc EXCEPT ![t].snapshot.Last = g.last]
    /\ pc' = [pc EXCEPT ![t] = "finalize"]
    /\ UNCHANGED <<kind, c, g, h, mutex, ret, prev, epoch, calls, hist, pureVars>>

\* finalizeSnapshot(&snapshot, resv, percentiles, reset). A panic ends the
\* goroutine's call with the mutex still locked.
Finalize(t) ==
    /\ pc[t] = "finalize"
    /\ LET s == IF kind = "Gauge" THEN g.resv ELSE h.resv
           p == IF kind = "Gauge" THEN g.percentiles ELSE h.percentiles
           fin == finalizeSnapshot(loc[t].snapshot, s, p, loc[t].reset)
       IN /\ g' = IF kind = "Gauge" THEN [g EXCEPT !.resv = fin.resv] ELSE g
          /\ h' = IF kind = "Histogram" THEN [h EXCEPT !.resv = fin.resv] ELSE h
          /\ loc' = [loc EXCEPT ![t].snapshot = fin.snapshot,
                                ![t].incl = hist.inSum]
          /\ pc' = [pc EXCEPT ![t] =
                      IF fin.panic THEN "panicked"
                      ELSE IF kind = "Gauge" /\ loc[t].reset THEN "zeroLast"
                      ELSE "unlock"]
    /\ hist' = [hist EXCEPT !.inSum = IF loc[t].reset THEN 0 ELSE @]
    /\ UNCHANGED <<kind, c, mutex, ret, prev, epoch, calls, pureVars>>

\* Gauge.Snapshot: if reset { g.last = 0 }
GaugeSnapZeroLast(t) ==
    /\ pc[t] = "zeroLast"
    /\ g' = [g EXCEPT !.last = 0]
    /\ pc' = [pc EXCEPT ![t] = "unlock"]
    /\ UNCHANGED <<kind, c, h, mutex, ret, prev, epoch, loc, calls, hist, pureVars>>

\* c.Unlock() / g.Unlock() / h.Unlock(), and the call returns. The snapshot
\* returned stays in the snapshotting goroutine's locals until its next call.
Unlock(t) ==
    /\ pc[t] = "unlock"
    /\ mutex' = "unlocked"
    /\ pc' = [pc EXCEPT ![t] = "idle"]
    /\ loc' = IF loc[t].op = "Snapshot" THEN loc
              ELSE [loc EXCEPT ![t] = NoLocals]
    /\ hist' =
         IF loc[t].op = "Snapshot"
         THEN [hist EXCEPT !.snaps =
                 IF loc[t].reset
                 THEN [n |-> @.n + loc[t].snapshot.N,
                       sum |-> @.sum + loc[t].snapshot.Sum]
                 ELSE @]
         ELSE [hist EXCEPT
                 !.done = [n |-> @.n + 1, sum |-> @.sum + loc[t].arg]]
    /\ UNCHANGED <<kind, c, g, h, ret, prev, epoch, calls, pureVars>>

ConcNext ==
    \E t \in Procs :
        \/ \E delta \in Deltas : CounterAddN(t, delta)
        \/ CounterAddSum(t)
        \/ \E op \in {"Record", "Add"} :
              \E arg \in ConcValues \cup Deltas : InvokeRecord(t, op, arg)
        \/ \E doReset \in BOOLEAN : InvokeSnapshot(t, doReset)
        \/ Lock(t)
        \/ CounterSnapReadN(t)
        \/ CounterSnapReadSum(t)
        \/ CounterSnapZeroN(t)
        \/ CounterSnapZeroSum(t)
        \/ GaugeSetLast(t)
        \/ Record(t)
        \/ GaugeSnapLast(t)
        \/ Finalize(t)
        \/ GaugeSnapZeroLast(t)
        \/ Unlock(t)

ConcSpec == ConcInit /\ [][ConcNext]_vars

----------------------------------------------------------------------------
(* LockedSpec: the Counter of src/unnamed/part_000, lines 722-761 *)

\* Counter.Add of the locked variant: c.n += 1, then c.sum += delta.
Locked_AddN(cc) == [cc EXCEPT !.n = cc.n + 1]
Locked_AddSum(cc, delta) == [cc EXCEPT !.sum = cc.sum + delta]

\* Counter.Count of the locked variant: cnt := c.sum.
Locked_Count(cc) == cc.sum

\* Counter.Snapshot of the locked variant between Lock and Unlock.
Locked_Snapshot(cc, doReset) ==
    [snapshot |-> [ZeroSnapshot EXCEPT !.N = cc.n, !.Sum = Float64(cc.sum)],
     c |-> IF doReset THEN [cc EXCEPT !.n = 0, !.sum = 0] ELSE cc]

LockedInit ==
    /\ kind = "LockedCounter"
    /\ c = NewCounter
    /\ g = NewGauge(<< >>)
    /\ h = NewHistogram(<< >>)
    /\ mutex = "unlocked"
    /\ ret = NoCall
    /\ prev = NoCall
    /\ epoch = NoEpoch
    /\ pc = [t \in Procs |-> "idle"]
    /\ loc = [t \in Procs |-> NoLocals]
    /\ calls = [t \in Procs |-> 0]
    /\ hist = NoHist
    /\ est = NoEst
    /\ outcomes = NoOutcomes

\* A worker goroutine calls Add(delta) or Count().
LockedInvoke(t, op, delta) ==
    /\ t \in Workers
    /\ pc[t] = "idle" /\ calls[t] < OpsPerWorker
    /\ calls' = [calls EXCEPT ![t] = @ + 1]
    /\ loc' = [loc EXCEPT ![t] = [NoLocals EXCEPT !.op = op, !.arg = delta]]
    /\ pc' = [pc EXCEPT ![t] = "lock"]
    /\ UNCHANGED <<kind, c, g, h, mutex, ret, prev, epoch, hist, pureVars>>

\* Mutant: Add, Count and Snapshot go on without waiting for the mutex.
LockedLock_noWait(t) ==
    /\ pc[t] = "lock"
    /\ mutex' = t
    /\ pc' = [pc EXCEPT ![t] =
                IF loc[t].op = "Add" THEN "incN"
                ELSE IF loc[t].op = "Count" THEN "readCount"
                ELSE "readN"]
    /\ UNCHANGED <<kind, c, g, h, ret, prev, epoch, loc, calls, hist, pureVars>>

\* c.Lock() of Add, Count and Snapshot.
LockedLock(t) ==
    /\ pc[t] = "lock"
    /\ mutex = "unlocked"
    /\ mutex' = t
    /\ pc' = [pc EXCEPT ![t] =
                IF loc[t].op = "Add" THEN "incN"
                ELSE IF loc[t].op = "Count" THEN "readCount"
                ELSE "readN"]
    /\ UNCHANGED <<kind, c, g, h, ret, prev, epoch, loc, calls, hist, pureVars>>

\* Add: c.n += 1
LockedAddN(t) ==
    /\ pc[t] = "incN"
    /\ c' = Locked_AddN(c)
    /\ pc' = [pc EXCEPT ![t] = "incSum"]
    /\ UNCHANGED <<kind, g, h, mutex, ret, prev, epoch, loc, calls, hist, pureVars>>

\* Add: c.sum += delta
LockedAddSum(t) ==
    /\ pc[t] = "incSum"
    /\ c' = Locked_AddSum(c, loc[t].arg)
    /\ hist' = [hist EXCEPT !.inSum = @ + 1]
    /\ pc' = [pc EXCEPT ![t] = "unlock"]
    /\ UNCHANGED <<kind, g, h, mutex, ret, prev, epoch, loc, calls, pureVars>>

\* Count: cnt := c.sum
LockedCountRead(t) ==
    /\ pc[t] = "readCount"
    /\ loc' = [loc EXCEPT ![t].arg = Locked_Count(c)]
    /\ pc' = [pc EXCEPT ![t] = "unlockCount"]
    /\ UNCHANGED <<kind, c, g, h, mutex, ret, prev, epoch, calls, hist, pureVars>>

\* Count: c.Unlock(); return cnt
LockedCountUnlock(t) ==
    /\ pc[t] = "unlockCount"
    /\ mutex' = "unlocked"
    /\ loc' = [loc EXCEPT ![t] = NoLocals]
    /\ pc' = [pc EXCEPT ![t] = "idle"]
    /\ UNCHANGED <<kind, c, g, h, ret, prev, epoch, calls, hist, pureVars>>

\* Snapshot has the statements of ConcSpec's Counter.Snapshot; Add and
\* Snapshot end with c.Unlock().
LockedNext ==
    \E t \in Procs :
        \/ \E delta \in Deltas : LockedInvoke(t, "Add", delta)
        \/ LockedInvoke(t, "Count", 0)
        \/ \E doReset \in BOOLEAN : InvokeSnapshot(t, doReset)
        \/ LockedLock(t)
        \/ LockedAddN(t)
        \/ LockedAddSum(t)
        \/ LockedCountRead(t)
        \/ LockedCountUnlock(t)
        \/ CounterSnapReadN(t)
        \/ CounterSnapReadSum(t)
        \/ CounterSnapZeroN(t)
        \/ CounterSnapZeroSum(t)
        \/ Unlock(t)

LockedSpec == LockedInit /\ [][LockedNext]_vars

----------------------------------------------------------------------------
(* SnapSpec: Snapshot of a Gauge or Histogram holding any values *)

\* record applied to each value of vs in turn (no draw is made while the
\* sample is below capacity).
RECURSIVE RecordAll(_, _)
RecordAll(s, vs) ==
    IF vs = << >> THEN s ELSE RecordAll(record(s, Head(vs), 0), Tail(vs))

RECURSIVE EpochRecordAll(_, _)
EpochRecordAll(e, vs) ==
    IF vs = << >> THEN e
    ELSE EpochRecordAll(EpochRecord(e, Head(vs)), Tail(vs))

\* A Gauge or Histogram of capacity size after Record(vs[1]), ...,
\* Record(vs[n]) with n <= size.
SnapInit ==
    /\ kind \in {"Gauge", "Histogram"}
    /\ c = NewCounter
    /\ \E cfg \in EstConfigs, size \in 1 .. MaxSampleSize :
          \E n \in 0 .. size :
             \E vs \in [1 .. n -> Values] :
                LET s == RecordAll(newRandomSample(size), vs)
                IN /\ g = IF kind = "Gauge"
                          THEN [percentiles |-> cfg, resv |-> s,
                                last |-> IF n = 0 THEN 0 ELSE vs[n]]
                          ELSE NewGauge(<< >>)
                   /\ h = IF kind = "Histogram"
                          THEN [percentiles |-> cfg, resv |-> s]
                          ELSE NewHistogram(<< >>)
                   /\ epoch = EpochRecordAll(NoEpoch, vs)
    /\ mutex = "unlocked"
    /\ ret = NoCall
    /\ prev = NoCall
    /\ pc = << >>
    /\ loc = << >>
    /\ calls = << >>
    /\ hist = << >>
    /\ est = NoEst
    /\ outcomes = NoOutcomes

SnapNext ==
    \/ \E doReset \in BOOLEAN : GaugeSnapshot(doReset)
    \/ \E doReset \in BOOLEAN : HistogramSnapshot(doReset)

SnapSpec == SnapInit /\ [][SnapNext]_vars

----------------------------------------------------------------------------
(* EstSpec: percentiles(percentiles, values, sampleSize) as a function *)

\* The sorted slices of n values: what finalizeSnapshot passes as values.
SortedSeqs(n) ==
    {s \in [1 .. n -> Values] : \A i \in 1 .. n - 1 : s[i] <= s[i + 1]}

\* The arguments finalizeSnapshot can pass: a percentile list, a capacity
\* and a sorted sample of at most that many values.
EstInit ==
    /\ kind = "none"
    /\ c = NewCounter
    /\ g = NewGauge(<< >>)
    /\ h = NewHistogram(<< >>)
    /\ mutex = "unlocked"
    /\ ret = NoCall
    /\ prev = NoCall
    /\ epoch = NoEpoch
    /\ pc = << >>
    /\ loc = << >>
    /\ calls = << >>
    /\ hist = << >>
    /\ \E ps \in EstConfigs, size \in 1 .. MaxSampleSize :
          \E n \in 0 .. size :
             \E values \in SortedSeqs(n) :
                est = [NoEst EXCEPT !.percentiles = ps, !.values = values,
                                    !.sampleSize = size]
    /\ outcomes = NoOutcomes

\* The call of percentiles.
EstPercentiles ==
    /\ ~est.called
    /\ LET pr == percentiles(est.percentiles, est.values, est.sampleSize)
       IN est' = [est EXCEPT !.called = TRUE, !.panic = pr.panic,
                             !.scores = pr.scores]
    /\ UNCHANGED <<kind, c, g, h, mutex, ret, prev, epoch, concVars, outcomes>>

EstNext == EstPercentiles

EstSpec == EstInit /\ [][EstNext]_vars

----------------------------------------------------------------------------
(* ResvSpec: one randomSample along every sequence of draw outcomes *)

\* record(v) applied to the sampler reached by each sequence of outcomes,
\* once for each outcome of the draw: the samplers reached by the sequences
\* one draw longer. rand.Int63n is uniform, and the samplers of one moment
\* have the same number of outcomes, so the sequences are equally likely.
RECURSIVE RecordEach(_, _)
RecordEach(samples, v) ==
    IF samples = << >> THEN << >>
    ELSE LET s == Head(samples)
         IN [i \in 1 .. Cardinality(Draws(s)) |-> record(s, v, i - 1)]
               \o RecordEach(Tail(samples), v)

ResvInit ==
    /\ kind = "none"
    /\ c = NewCounter
    /\ g = NewGauge(<< >>)
    /\ h = NewHistogram(<< >>)
    /\ mutex = "unlocked"
    /\ ret = NoCall
    /\ prev = NoCall
    /\ epoch = NoEpoch
    /\ pc = << >>
    /\ loc = << >>
    /\ calls = << >>
    /\ hist = << >>
    /\ est = NoEst
    /\ \E size \in 1 .. MaxCapacity :
          outcomes = [recorded |-> << >>,
                      samples |-> <<newRandomSample(size)>>]

\* record(v) of a value not recorded before in the epoch.
ResvRecord(v) ==
    /\ Len(outcomes.recorded) < MaxCount
    /\ \A j \in 1 .. Len(outcomes.recorded) : outcomes.recorded[j] # v
    /\ outcomes' = [recorded |-> Append(outcomes.recorded, v),
                    samples |-> RecordEach(outcomes.samples, v)]
    /\ UNCHANGED <<kind, c, g, h, mutex, ret, prev, epoch, concVars, est>>

\* reset(): it leaves the same sampler whatever the outcomes were, so one
\* is kept.
ResvReset ==
    /\ outcomes.recorded # << >>
    /\ outcomes' = [recorded |-> << >>,
                    samples |-> <<reset(outcomes.samples[1])>>]
    /\ UNCHANGED <<kind, c, g, h, mutex, ret, prev, epoch, concVars, est>>

ResvNext ==
    \/ \E v \in ResvValues : ResvRecord(v)
    \/ ResvReset

ResvSpec == ResvInit /\ [][ResvNext]_vars

----------------------------------------------------------------------------
(* Properties *)

Sampled == kind \in {"Gauge", "Histogram"}

\* ConcSpec: no call is in progress.
Quiescent == \A t \in Procs : pc[t] = "idle"

\* ConcSpec: the live sampler of the Gauge or the Histogram.
LiveResv == IF kind = "Gauge" THEN g.resv ELSE h.resv

\* ConcSpec: the snapshotting goroutine's latest Snapshot call has returned.
SnapshotReturned ==
    pc[Snapshotter] = "idle" /\ loc[Snapshotter].op = "Snapshot"

\* Spec: the latest call was a Snapshot that returned.
RetSnapshot == ret.op = "Snapshot" /\ ~ret.panic

\* Spec: the sampler in the state the latest call was invoked in.
PreResv == IF kind = "Gauge" THEN ret.pre.g.resv ELSE ret.pre.h.resv

SeqMin(s) == CHOOSE m \in {s[i] : i \in 1 .. Len(s)} :
                 \A i \in 1 .. Len(s) : m <= s[i]

\* C1 (ConcSpec). Counter: whenever no call is in progress, the N of all
\* reset snapshots plus c.n is the number of Adds that returned, and the Sum
\* of all reset snapshots plus c.sum is the total of their deltas.
C1_CounterNoAddLost ==
    (kind = "Counter" /\ Quiescent) =>
        /\ hist.snaps.n + c.n = hist.done.n
        /\ hist.snaps.sum + c.sum = hist.done.sum

\* C2 (ConcSpec). Gauge and Histogram: whenever no call is in progress, the
\* N of all reset snapshots plus the live count is the number of Records and
\* Adds that returned, likewise for Sum and the recorded values; and every
\* snapshot returned has N equal to the number of records whose value is in
\* its Sum.
C2_RecordInExactlyOneEpoch ==
    Sampled =>
        /\ Quiescent =>
              /\ hist.snaps.n + LiveResv.n = hist.done.n
              /\ hist.snaps.sum + LiveResv.sum = hist.done.sum
        /\ SnapshotReturned =>
              loc[Snapshotter].snapshot.N = loc[Snapshotter].incl

\* C2 witness: a reset snapshot took one record and another record went to
\* the next epoch.
C2_Witness ==
    /\ kind = "Gauge" /\ Quiescent
    /\ loc[Snapshotter].reset
    /\ hist.snaps.n >= 1
    /\ g.resv.n >= 1

\* C3 (ConcSpec). Counter: every snapshot returned has N equal to the number
\* of Adds whose delta is in its Sum.
C3_CounterCountAndSumAsUnit ==
    (kind = "Counter" /\ SnapshotReturned) =>
        loc[Snapshotter].snapshot.N = loc[Snapshotter].incl

\* C4 (ConcSpec). A Snapshot(true) called after every worker has returned
\* from all its calls, no Snapshot(true) having been called before, reports
\* N = M*K and Sum = the total of the values recorded.
C4_SnapshotAfterAllReturned ==
    (SnapshotReturned /\ loc[Snapshotter].reset
       /\ loc[Snapshotter].quiet /\ loc[Snapshotter].first) =>
        /\ loc[Snapshotter].snapshot.N = Cardinality(Workers) * OpsPerWorker
        /\ loc[Snapshotter].snapshot.Sum = hist.done.sum

C4_Witness ==
    /\ kind = "Counter"
    /\ SnapshotReturned /\ loc[Snapshotter].reset
    /\ loc[Snapshotter].quiet /\ loc[Snapshotter].first
    /\ loc[Snapshotter].snapshot.N = Cardinality(Workers) * OpsPerWorker

\* C5 (Spec). Gauge and Histogram: a snapshot's N is the number of values
\* recorded since the last reset and its Sum is their sum, whatever the
\* number of values and the outcomes of the replacement draws.
C5_ExactCountAndSum ==
    (Sampled /\ RetSnapshot) =>
        /\ ret.snap.N = ret.pre.epoch.count
        /\ ret.snap.Sum = ret.pre.epoch.sum

\* C5 witness: a snapshot of more values than the reservoir holds.
C5_Witness ==
    /\ Sampled /\ RetSnapshot
    /\ ret.pre.epoch.count > defaultSampleSize
    /\ ret.snap.N = ret.pre.epoch.count

\* C6 (Spec). Gauge and Histogram: the Max of a snapshot taken after at
\* least one record is the largest value recorded since the last reset.
C6_MaxIsLargestRecorded ==
    (Sampled /\ RetSnapshot /\ ret.pre.epoch.count > 0) =>
        ret.snap.Max = ret.pre.epoch.max

\* C7 (Spec). Gauge and Histogram: the Min of a non-empty snapshot is the
\* smallest value held in the sample; it is never below the smallest value
\* recorded since the last reset, and equals it when at most capacity values
\* were recorded.
C7_MinIsSampleMin ==
    (Sampled /\ RetSnapshot /\ ret.pre.epoch.count > 0) =>
        /\ ret.snap.Min = SeqMin(PreResv.values)
        /\ ret.snap.Min >= ret.pre.epoch.min
        /\ ret.pre.epoch.count <= defaultSampleSize =>
              ret.snap.Min = ret.pre.epoch.min

\* C7 witness: the smallest value recorded was evicted from the sample.
C7_Witness ==
    /\ Sampled /\ RetSnapshot /\ ret.pre.epoch.count > 0
    /\ ret.snap.Min > ret.pre.epoch.min

\* C8 (Spec). A call made right after Snapshot(true): Snapshot(true) returns
\* the all-zero snapshot, Counter.Count() returns 0 and Gauge.Last()
\* returns 0. (No call follows a Snapshot that panicked: it never returns
\* and the mutex stays locked.)
C8_SecondResetSnapshotIsZero ==
    (prev.op = "Snapshot" /\ prev.reset) =>
        /\ (ret.op = "Snapshot" /\ ret.reset) =>
              (~ret.panic /\ ret.snap = ZeroSnapshot)
        /\ ret.op \in {"Count", "Last"} => ret.val = 0

\* C8 witness: the first Snapshot(true) returned recorded values.
C8_Witness ==
    /\ prev.op = "Snapshot" /\ prev.reset
    /\ prev.snap.N > 0 /\ prev.snap.Percentile # EmptyPercentile
    /\ ret.op = "Snapshot" /\ ret.reset

\* C9 (Spec). Two consecutive Snapshot(false) calls return the same snapshot.
C9_NoResetSnapshotsAgree ==
    (prev.op = "Snapshot" /\ ~prev.reset
       /\ ret.op = "Snapshot" /\ ~ret.reset) =>
        (~ret.panic /\ ret.snap = prev.snap)

\* C9 witness: two consecutive Snapshot(false) of a metric holding values.
C9_Witness ==
    /\ prev.op = "Snapshot" /\ ~prev.reset
    /\ ret.op = "Snapshot" /\ ~ret.reset
    /\ ret.snap.N > 0 /\ ret.snap.Percentile # EmptyPercentile

\* C10 (Spec). The first call on a new Counter, Gauge or Histogram, when it
\* is a Snapshot, returns the all-zero snapshot.
C10_FreshSnapshotIsZero ==
    (prev.op = "none" /\ ret.op = "Snapshot") =>
        (~ret.panic /\ ret.snap = ZeroSnapshot)

\* C10 witness: Snapshot(false) as the first call on a Gauge configured
\* with percentiles.
C10_Witness ==
    /\ prev.op = "none" /\ ret.op = "Snapshot" /\ ~ret.reset
    /\ kind = "Gauge" /\ g.percentiles # << >>

\* C11 (Spec). Gauge: Last() returns g.last and changes nothing; Record and
\* Add leave in g.last the value they recorded; a Snapshot reports in Last
\* the g.last it was called with, Snapshot(false) leaves g.last unchanged
\* and Snapshot(true) sets it to 0; and g.last is 0 as long as nothing has
\* been recorded since construction or the last Snapshot(true).
C11_LastIsMostRecent ==
    (kind = "Gauge" /\ ~ret.panic) =>
        /\ ret.op = "Last" => (ret.val = ret.pre.g.last /\ g = ret.pre.g)
        /\ ret.op \in {"Record", "Add"} =>
              g.last = epoch.sum - ret.pre.epoch.sum
        /\ ret.op = "Snapshot" =>
              /\ ret.snap.Last = ret.pre.g.last
              /\ g.last = IF ret.reset THEN 0 ELSE ret.pre.g.last
        /\ epoch.count = 0 => g.last = 0

\* C11 witness: Last() called after a Record and a Snapshot(false) returns
\* the value recorded.
C11_Witness ==
    /\ kind = "Gauge"
    /\ prev.op = "Snapshot" /\ ~prev.reset /\ prev.snap.Last = 3
    /\ ret.op = "Last" /\ ret.val = 3

\* Spec: the latest call is the first one on a new instance or the first one
\* after a Snapshot(true).
FirstOfEpoch == prev.op = "none" \/ (prev.op = "Snapshot" /\ prev.reset)

\* C12 (Spec). Gauge.Add(delta) leaves g.last = old g.last + delta and
\* records that value once: n grows by 1, sum by the new g.last, max becomes
\* the larger of max and the new g.last, and the new g.last is appended to a
\* sample below capacity or replaces at most one value of a full sample. An
\* Add that is the first call of an epoch records its delta (0 + delta).
C12_AddRecordsNewLast ==
    (kind = "Gauge" /\ ret.op = "Add") =>
        LET old == ret.pre.g
            full == Len(old.resv.values) >= defaultSampleSize
        IN /\ (g.last - old.last) \in Deltas
           /\ g.resv.n = old.resv.n + 1
           /\ g.resv.sum = old.resv.sum + g.last
           /\ g.resv.max = Max2(old.resv.max, g.last)
           /\ ~full => g.resv.values = Append(old.resv.values, g.last)
           /\ full =>
                 \/ g.resv.values = old.resv.values
                 \/ \E i \in 1 .. Len(old.resv.values) :
                       g.resv.values = [old.resv.values EXCEPT ![i] = g.last]
           /\ FirstOfEpoch =>
                 (g.last \in Deltas /\ g.resv.values = <<g.last>>)

\* C12 witness: Add(2), Add(2) on a new Gauge recorded 2 and 4.
C12_Witness ==
    /\ kind = "Gauge"
    /\ prev.op = "Add" /\ ret.op = "Add"
    /\ g.resv.values = <<2, 4>> /\ g.resv.n = 2 /\ g.resv.sum = 6

\* C13 (Spec). Counter, calls that do not overlap: Add(delta) increases c.n
\* by 1 and c.sum by delta, whatever the sign of delta; c.n is the number of
\* Adds and c.sum the total of the deltas since the last Snapshot(true);
\* Count() returns that total and leaves the Counter unchanged; Snapshot
\* reports the two as N and Sum.
C13_CounterAddAndCount ==
    kind = "Counter" =>
        /\ c.n = epoch.count /\ c.sum = epoch.sum
        /\ ret.op = "Add" =>
              /\ c.n = ret.pre.c.n + 1
              /\ (c.sum - ret.pre.c.sum) \in CounterDeltas
              /\ c.sum - ret.pre.c.sum = epoch.sum - ret.pre.epoch.sum
        /\ ret.op = "Count" =>
              (ret.val = ret.pre.epoch.sum /\ c = ret.pre.c)
        /\ ret.op = "Snapshot" =>
              /\ ret.snap.N = ret.pre.epoch.count
              /\ ret.snap.Sum = ret.pre.epoch.sum

\* C13 witness: Count() returns a negative total after three Adds, one of
\* them Add(0).
C13_Witness ==
    /\ kind = "Counter"
    /\ ret.op = "Count" /\ ret.val = -2
    /\ c.n = 3 /\ prev.op = "Add"

\* C14 (Spec). Every snapshot of a Counter has Min = 0, Max = 0, Last = 0
\* and no percentile entries; every snapshot of a Histogram has Last = 0.
C14_InapplicableFieldsZero ==
    RetSnapshot =>
        /\ kind = "Counter" =>
              /\ ret.snap.Min = 0 /\ ret.snap.Max = 0 /\ ret.snap.Last = 0
              /\ DOMAIN ret.snap.Percentile = {}
        /\ kind = "Histogram" => ret.snap.Last = 0

\* C14 witness: a snapshot of a Counter whose sum is not zero.
C14_Witness ==
    /\ kind = "Counter" /\ RetSnapshot
    /\ ret.snap.N > 0 /\ ret.snap.Sum # 0

\* Spec: the percentile list the Gauge or the Histogram was created with.
ConfigPercentiles == IF kind = "Gauge" THEN g.percentiles ELSE h.percentiles

\* C15 (Spec). Gauge and Histogram created with no percentiles: no Snapshot
\* panics and every snapshot has a percentile mapping with no entries, N and
\* Sum of the values recorded since the last reset, Max = the sampler's max,
\* Min = the smallest value of the sample (0 when nothing was recorded) and,
\* for a Gauge, Last = g.last.
C15_NoPercentilesConfigured ==
    (Sampled /\ ConfigPercentiles = << >> /\ ret.op = "Snapshot") =>
        /\ ~ret.panic
        /\ DOMAIN ret.snap.Percentile = {}
        /\ ret.snap.N = ret.pre.epoch.count
        /\ ret.snap.Sum = ret.pre.epoch.sum
        /\ ret.snap.Max = PreResv.max
        /\ ret.snap.Min = IF ret.pre.epoch.count = 0 THEN 0
                          ELSE SeqMin(PreResv.values)
        /\ ret.snap.Last = IF kind = "Gauge" THEN ret.pre.g.last ELSE 0

\* C15 witness: Snapshot(true) of a Gauge without percentiles after three
\* records.
C15_Witness ==
    /\ kind = "Gauge" /\ g.percentiles = << >>
    /\ RetSnapshot /\ ret.reset
    /\ ret.snap.N = 3 /\ ret.snap.Last # 0

\* C16 (Spec). Gauge and Histogram: a snapshot taken when exactly one value
\* v has been recorded since the last reset has N = 1, Sum = Min = Max = v
\* and maps every configured percentile to v.
C16_OneValue ==
    (Sampled /\ ret.op = "Snapshot" /\ ret.pre.epoch.count = 1) =>
        LET v == ret.pre.epoch.sum
        IN /\ ~ret.panic
           /\ ret.snap.N = 1
           /\ ret.snap.Sum = v /\ ret.snap.Min = v /\ ret.snap.Max = v
           /\ DOMAIN ret.snap.Percentile =
                 {ConfigPercentiles[i] : i \in 1 .. Len(ConfigPercentiles)}
           /\ \A p \in DOMAIN ret.snap.Percentile :
                 ret.snap.Percentile[p][1] = v * ret.snap.Percentile[p][2]

\* C16 without Max: what holds of a snapshot of exactly one value.
C16_OneValueButMax ==
    (Sampled /\ ret.op = "Snapshot" /\ ret.pre.epoch.count = 1) =>
        LET v == ret.pre.epoch.sum
        IN /\ ~ret.panic
           /\ ret.snap.N = 1
           /\ ret.snap.Sum = v /\ ret.snap.Min = v
           /\ ret.snap.Max = Max2(0, v)
           /\ DOMAIN ret.snap.Percentile =
                 {ConfigPercentiles[i] : i \in 1 .. Len(ConfigPercentiles)}
           /\ \A p \in DOMAIN ret.snap.Percentile :
                 ret.snap.Percentile[p][1] = v * ret.snap.Percentile[p][2]

\* EstSpec: the ranks percentiles was called with.
EstKeys == {est.percentiles[i] : i \in 1 .. Len(est.percentiles)}

\* The integer ceil(p * n) for the rank p = a/b.
CeilOf(p, n) ==
    CHOOSE i \in 0 .. n : (i - 1) * p[2] < p[1] * n /\ p[1] * n <= i * p[2]

\* C17 (EstSpec). percentiles called with ranks in (0, 1] and a sorted
\* sample of n >= sampleSize values returns, for each rank p, the value
\* values[ceil(p * n) - 1] (counting from 0), and does not panic.
C17_NearestRank ==
    (/\ est.called
     /\ Len(est.values) >= est.sampleSize
     /\ \A p \in EstKeys : p[1] > 0) =>
        /\ ~est.panic
        /\ DOMAIN est.scores = EstKeys
        /\ \A p \in EstKeys :
              est.scores[p][1] =
                 est.values[CeilOf(p, Len(est.values))] * est.scores[p][2]

\* C17 witness: the median of exactly sampleSize values, where the
\* interpolated formula would give a value between two sample values.
C17_Witness ==
    /\ est.called /\ ~est.panic
    /\ Len(est.values) = est.sampleSize
    /\ est.values = <<1, 3>>
    /\ <<1, 2>> \in DOMAIN est.scores
    /\ est.scores[<<1, 2>>][1] = 1 * est.scores[<<1, 2>>][2]

\* Spec: the ranks the Gauge or the Histogram was created with.
ConfigKeys == {ConfigPercentiles[i] : i \in 1 .. Len(ConfigPercentiles)}

\* C18 (Spec). Gauge and Histogram configured with the rank 0: every
\* Snapshot taken when at least one value has been recorded since the last
\* reset returns, and maps the rank 0 to the smallest value of the sample,
\* whether the sample is below capacity or full.
C18_RankZeroIsMin ==
    (Sampled /\ <<0, 1>> \in ConfigKeys
       /\ ret.op = "Snapshot" /\ ret.pre.epoch.count > 0) =>
        /\ ~ret.panic
        /\ ret.snap.Percentile[<<0, 1>>][1] =
              SeqMin(PreResv.values) * ret.snap.Percentile[<<0, 1>>][2]

\* C18 below capacity: what holds of the rank 0.
C18_RankZeroBelowCapacity ==
    (Sampled /\ <<0, 1>> \in ConfigKeys
       /\ ret.op = "Snapshot" /\ ret.pre.epoch.count > 0
       /\ Len(PreResv.values) < defaultSampleSize) =>
        /\ ~ret.panic
        /\ ret.snap.Percentile[<<0, 1>>][1] =
              SeqMin(PreResv.values) * ret.snap.Percentile[<<0, 1>>][2]

\* The position pos = p*(n + 1/3) + 1/3 of the rank p = a/b in a sample of n
\* values, as the fraction PosNum / PosDen, and its integer part.
PosNum(p, n) == 3 * p[1] * n + p[1] + p[2]
PosDen(p) == 3 * p[2]
PosFloor(p, n) ==
    CHOOSE k \in 0 .. n + 1 :
        k * PosDen(p) <= PosNum(p, n) /\ PosNum(p, n) < (k + 1) * PosDen(p)

\* The score sc is the fraction num / den.
ScoreIs(sc, num, den) == sc[1] * den = num * sc[2]

\* C19 (EstSpec). percentiles called with a sorted sample of 0 < n <
\* sampleSize values does not panic and maps each rank p, with
\* pos = p*(n + 1/3) + 1/3 and k = floor(pos), to values[0] when pos < 1, to
\* values[n-1] when pos >= n, and otherwise to
\* values[k-1] + (pos - k) * (values[k] - values[k-1]), where 1 <= k < n.
C19_R8Interpolation ==
    (est.called /\ 0 < Len(est.values)
       /\ Len(est.values) < est.sampleSize) =>
        LET n == Len(est.values)
            v == est.values
        IN /\ ~est.panic
           /\ DOMAIN est.scores = EstKeys
           /\ \A p \in EstKeys :
                 LET num == PosNum(p, n)
                     den == PosDen(p)
                     k == PosFloor(p, n)
                 IN IF num < den THEN ScoreIs(est.scores[p], v[1], 1)
                    ELSE IF num >= n * den
                    THEN ScoreIs(est.scores[p], v[n], 1)
                    ELSE /\ 1 <= k /\ k + 1 <= n
                         /\ ScoreIs(est.scores[p],
                                    v[k] * den
                                      + (num - k * den) * (v[k + 1] - v[k]),
                                    den)

\* C19 witness: rank 3/4 of the three values -2, 1, 3 with capacity 4:
\* pos = 17/6, k = 2, score 1 + 5/6 * (3 - 1) = 8/3.
C19_Witness ==
    /\ est.called /\ ~est.panic
    /\ est.values = <<-2, 1, 3>> /\ est.sampleSize = 4
    /\ <<3, 4>> \in DOMAIN est.scores
    /\ ScoreIs(est.scores[<<3, 4>>], 8, 3)

\* ResvSpec: the sequences of outcomes after which the j-th value recorded
\* is in the sample.
Holding(j) ==
    {i \in 1 .. Len(outcomes.samples) :
        \E x \in 1 .. Len(outcomes.samples[i].values) :
            outcomes.samples[i].values[x] = outcomes.recorded[j]}

\* C20 (ResvSpec). After every sequence of draw outcomes the sample holds
\* at most capacity values; and once count > capacity values have been
\* recorded since the last reset, each of them is in the sample after the
\* fraction capacity / count of the equally likely sequences of outcomes.
C20_ReservoirUniform ==
    LET count == Len(outcomes.recorded)
        total == Len(outcomes.samples)
    IN /\ \A i \in 1 .. total :
             /\ Len(outcomes.samples[i].values)
                   <= outcomes.samples[i].sampleSize
             /\ outcomes.samples[i].n = count
       /\ \A i \in 1 .. total : count > outcomes.samples[i].sampleSize =>
             \A j \in 1 .. count :
                Cardinality(Holding(j)) * count
                   = outcomes.samples[i].sampleSize * total

\* C20 witness: capacity 2 and four values: twelve sequences of outcomes,
\* and the value recorded first is in the sample after six of them.
C20_Witness ==
    /\ Len(outcomes.recorded) = 4
    /\ Len(outcomes.samples) = 12
    /\ outcomes.samples[1].sampleSize = 2
    /\ Cardinality(Holding(1)) = 6

\* ResvSpec: the slots in which two samples of the same length differ.
Changed(old, new) == {x \in 1 .. Len(old) : old[x] # new[x]}

\* C21 (ResvSpec). Every record(v), from the sampler reached by every
\* sequence of draw outcomes: below capacity there is one successor and v
\* is appended; at capacity there is one successor for each r in [0, count),
\* count including v, and in it values[r] is v when r < capacity and the
\* sample is unchanged otherwise; the length stays capacity and the only
\* slot that can change is the one that becomes v.
C21_RecordStep ==
    [][Len(outcomes'.recorded) = Len(outcomes.recorded) + 1 =>
         LET v == outcomes'.recorded[Len(outcomes'.recorded)]
             count == Len(outcomes'.recorded)
             old == outcomes.samples
             new == outcomes'.samples
         IN \A i \in 1 .. Len(old) :
               LET cap == old[i].sampleSize IN
               IF Len(old[i].values) < cap
               THEN /\ Len(new) = Len(old)
                    /\ new[i].values = Append(old[i].values, v)
               ELSE /\ Len(new) = Len(old) * count
                    /\ \A r \in 0 .. count - 1 :
                          LET after == new[(i - 1) * count + r + 1].values
                          IN /\ Len(after) = cap
                             /\ r < cap =>
                                   /\ after[r + 1] = v
                                   /\ Changed(old[i].values, after)
                                         \subseteq {r + 1}
                             /\ r >= cap => after = old[i].values
    ]_vars

\* C21 witness: capacity 2 and a third value: after the draw 0 it is in the
\* first slot, after the draw 2 the sample is the first two values.
C21_Witness ==
    /\ Len(outcomes.recorded) = 3
    /\ Len(outcomes.samples) = 3
    /\ outcomes.samples[1].sampleSize = 2
    /\ outcomes.samples[1].values
          = <<outcomes.recorded[3], outcomes.recorded[2]>>
    /\ outcomes.samples[3].values
          = <<outcomes.recorded[1], outcomes.recorded[2]>>

\* Spec: the live sampler is as C22 describes it.
SampleLengthOK ==
    LET s == LiveResv
    IN /\ Len(s.values) = Min2(s.n, s.sampleSize)
       /\ s.n >= Len(s.values) /\ Len(s.values) <= s.sampleSize
       /\ Len(s.values) = 0 <=> s.n = 0
       /\ Len(s.values) = 0 =>
             /\ s.sum = 0 /\ s.max = 0
             /\ kind = "Gauge" => g.last = 0

\* C22 (Spec). Gauge and Histogram, in every state no call is executing in:
\* len(sample) = min(count, capacity), the sample is empty exactly when
\* count = 0, and then sum = 0, max = 0 and, for a Gauge, last = 0.
C22_SampleLength == Sampled => SampleLengthOK

\* C22 in the states reached without a panic: the mutex is free.
C22_SampleLengthLockFree ==
    (Sampled /\ mutex = "unlocked") => SampleLengthOK

\* C23 (Spec). Gauge and Histogram: Snapshot(false) leaves count, sum, max,
\* last and the live sample, slot by slot, as they were when it was called;
\* when it has returned the mutex is free as well, so the instance is in
\* the state it was called in and later calls behave accordingly.
C23_SnapshotFalseFrame ==
    (Sampled /\ ret.op = "Snapshot" /\ ~ret.reset) =>
        /\ g = ret.pre.g
        /\ h = ret.pre.h
        /\ epoch = ret.pre.epoch
        /\ ~ret.panic => mutex = "unlocked"

\* C23 witness: Snapshot(false) of a full sample that is not in increasing
\* order.
C23_Witness ==
    /\ Sampled /\ RetSnapshot /\ ~ret.reset
    /\ LiveResv.n = 3 /\ Len(LiveResv.values) = 2
    /\ LiveResv.values[1] > LiveResv.values[2]
    /\ ret.snap.Min = LiveResv.values[2]

\* C24 (Spec). When Snapshot(true) has returned, the Counter, Gauge or
\* Histogram is in the state of a new instance with the same configuration
\* (count, sum, max, last zero, sample empty, mutex free) and no value is
\* counted as recorded; what later calls return is a function of that
\* state and of the outcomes of their draws.
C24_ResetIsFresh ==
    (RetSnapshot /\ ret.reset) =>
        /\ kind = "Counter" => c = NewCounter
        /\ kind = "Gauge" => g = NewGauge(ret.pre.g.percentiles)
        /\ kind = "Histogram" => h = NewHistogram(ret.pre.h.percentiles)
        /\ mutex = "unlocked"
        /\ epoch = NoEpoch

\* C24 witness: Snapshot(true) of a Gauge with percentiles whose sample was
\* full and whose maximum and last value were not zero.
C24_Witness ==
    /\ kind = "Gauge" /\ RetSnapshot /\ ret.reset
    /\ ret.pre.g.percentiles # << >>
    /\ ret.snap.N = 3 /\ ret.snap.Max = 3 /\ ret.snap.Last = 1
    /\ g = NewGauge(ret.pre.g.percentiles)

\* Spec: what Snapshot(doReset) does when called in the state the latest
\* call was made in: whether it panics and the snapshot it returns.
SnapshotFromPre(doReset) ==
    IF kind = "Counter"
    THEN [panic |-> FALSE,
          snapshot |-> Counter_Snapshot(ret.pre.c, doReset).snapshot]
    ELSE IF kind = "Gauge"
    THEN [panic |-> Gauge_Snapshot(ret.pre.g, doReset).panic,
          snapshot |-> Gauge_Snapshot(ret.pre.g, doReset).snapshot]
    ELSE [panic |-> Histogram_Snapshot(ret.pre.h, doReset).panic,
          snapshot |-> Histogram_Snapshot(ret.pre.h, doReset).snapshot]

\* C25 (Spec). A Snapshot returns what a Snapshot with the other value of
\* reset returns from the same state (N, Sum, Min, Max, Last and the
\* percentile mapping); in particular Snapshot(true) called right after
\* Snapshot(false) returns the same snapshot.
C25_ResetFlagSameSnapshot ==
    (ret.op = "Snapshot" /\ ~ret.panic) =>
        /\ ~SnapshotFromPre(~ret.reset).panic
        /\ SnapshotFromPre(~ret.reset).snapshot = ret.snap
        /\ (prev.op = "Snapshot" /\ ~prev.reset /\ ret.reset) =>
              ret.snap = prev.snap

\* C25 witness: Snapshot(false), then Snapshot(true), of a Histogram with
\* percentiles whose sample is full and not in increasing order.
C25_Witness ==
    /\ kind = "Histogram"
    /\ prev.op = "Snapshot" /\ ~prev.reset
    /\ RetSnapshot /\ ret.reset
    /\ ret.snap.N = 3 /\ ret.snap.Percentile # EmptyPercentile
    /\ ret.pre.h.resv.values[1] > ret.pre.h.resv.values[2]
    /\ ret.snap = prev.snap

\* ConcSpec: no goroutine is executing a call (a call that panicked is over).
NoCallInProgress == \A t \in Procs : pc[t] \in {"idle", "panicked"}

\* ConcSpec: the goroutine t is executing a call and can take its next step
\* (its only wait is for the mutex).
CanStep(t) ==
    /\ pc[t] \notin {"idle", "panicked"}
    /\ pc[t] = "lock" => mutex = "unlocked"

\* C26 (ConcSpec). The mutex is free whenever no call is in progress, a
\* goroutine holds it only while executing a call, and whenever calls are in
\* progress one of them can take a step, so that under fair scheduling
\* every invoked call returns.
C26_LockReleasedOnEveryPath ==
    /\ NoCallInProgress => mutex = "unlocked"
    /\ mutex \in Procs => pc[mutex] \notin {"idle", "panicked", "lock"}
    /\ ~NoCallInProgress => \E t \in Procs : CanStep(t)

\* C26 as long as no call has panicked.
C26_LockReleasedUnlessPanic ==
    (\A t \in Procs : pc[t] # "panicked") =>
        /\ NoCallInProgress => mutex = "unlocked"
        /\ mutex \in Procs => pc[mutex] \notin {"idle", "panicked", "lock"}
        /\ ~NoCallInProgress => \E t \in Procs : CanStep(t)

\* C27 (LockedSpec). The Counter whose Add, Count and Snapshot run under the
\* mutex: whenever no call is in progress, the N of all reset snapshots
\* plus c.n is the number of Adds that returned and the Sum of all reset
\* snapshots plus c.sum is the total of their deltas; every snapshot
\* returned has N equal to the number of Adds whose delta is in its Sum;
\* Count() returns the total of the deltas not yet taken by a reset
\* snapshot; and in every state reached, Add, Count and Snapshot as whole
\* calls have the results and effects of the atomic-Add Counter's.
C27_LockedCounter ==
    kind = "LockedCounter" =>
        /\ Quiescent =>
              /\ hist.snaps.n + c.n = hist.done.n
              /\ hist.snaps.sum + c.sum = hist.done.sum
        /\ SnapshotReturned =>
              loc[Snapshotter].snapshot.N = loc[Snapshotter].incl
        /\ \A t \in Workers : pc[t] = "unlockCount" =>
              loc[t].arg = hist.done.sum - hist.snaps.sum
        /\ \A delta \in Deltas :
              Locked_AddSum(Locked_AddN(c), delta)
                 = Counter_AddSum(Counter_AddN(c), delta)
        /\ Locked_Count(c) = Counter_Count(c)
        /\ \A doReset \in BOOLEAN :
              Locked_Snapshot(c, doReset) = Counter_Snapshot(c, doReset)
        /\ \A t \in Procs :
              (pc[t] = "unlock" /\ loc[t].op = "Snapshot") =>
                 \E cc \in {[n |-> loc[t].snapshot.N,
                              sum |-> loc[t].snapshot.Sum]} :
                    /\ loc[t].snapshot
                         = Locked_Snapshot(cc, loc[t].reset).snapshot
                    /\ c = Locked_Snapshot(cc, loc[t].reset).c

\* C27 witness: of two concurrent Adds one is in the reset snapshot that
\* returned and the other in the counter.
C27_Witness ==
    /\ kind = "LockedCounter" /\ Quiescent
    /\ SnapshotReturned /\ loc[Snapshotter].reset
    /\ loc[Snapshotter].snapshot.N = 1 /\ c.n = 1
    /\ hist.done.n = 2

SeqMax(s) == CHOOSE m \in {s[i] : i \in 1 .. Len(s)} :
                 \A i \in 1 .. Len(s) : m >= s[i]

\* C28 (SnapSpec). Every snapshot of a Gauge or Histogram that holds values
\* has Min <= Max, and each score for a configured rank in (0, 1] is at
\* least Min, the smallest value of the sample, and at most the largest
\* value of the sample, which is at most Max.
C28_PercentileWithinMinMax ==
    (Sampled /\ RetSnapshot /\ ret.snap.N > 0) =>
        /\ ret.snap.Min <= ret.snap.Max
        /\ ret.snap.Min = SeqMin(PreResv.values)
        /\ SeqMax(PreResv.values) <= ret.snap.Max
        /\ \A p \in DOMAIN ret.snap.Percentile : p[1] > 0 =>
              LET num == ret.snap.Percentile[p][1]
                  den == ret.snap.Percentile[p][2]
              IN /\ den > 0
                 /\ ret.snap.Min * den <= num
                 /\ num <= SeqMax(PreResv.values) * den

\* C28 witness: an interpolated score strictly between Min and Max that is
\* none of the sample's values (rank 3/4 of 3, -2, 1 below capacity: 8/3).
C28_Witness ==
    /\ Sampled /\ RetSnapshot
    /\ PreResv.values = <<3, -2, 1>> /\ PreResv.sampleSize = 4
    /\ <<3, 4>> \in DOMAIN ret.snap.Percentile
    /\ ret.snap.Min * 3 < 8 /\ 8 < ret.snap.Max * 3
    /\ ret.snap.Percentile[<<3, 4>>][1] * 3
          = 8 * ret.snap.Percentile[<<3, 4>>][2]

====
